---------------------------- MODULE Spec2Model ----------------------------
(***************************************************************************)
(* A model of the Hindi BPE tokenizer (class HindiBPE).                    *)
(*                                                                         *)
(* Text is a sequence of characters; a character is a short name:          *)
(*   "ka" U+0915, "ra" U+0930 (base consonants), "nukta" U+093C,           *)
(*   "rra" U+0931 (the composition of ra and nukta),                       *)
(*   "aa" U+093E, "u" U+0941 (vowel signs), "H" U+094D (halant/joiner),    *)
(*   "danda" U+0964, "zwsp" U+200B, "zwj" U+200D, "ell" U+2026,            *)
(*   and of the Latin-1 range: "sp" U+0020, "dq" U+0022, "hy" U+002D,      *)
(*   "dot" U+002E, "qm" U+003F, the capitals and brackets that spell the   *)
(*   special tokens, "us" U+005F, "a" U+0061, "nbsp" U+00A0.               *)
(* The tables of the constructor are restricted to this alphabet.          *)
(***************************************************************************)
EXTENDS Naturals, Integers, Sequences, FiniteSets, TLC

-----------------------------------------------------------------------------
(* Python str / re primitives on character sequences *)

\* characters for which str.isspace() holds: str.strip(), str.split(), \s
WS == {"sp", "nbsp"}

Last(s) == s[Len(s)]

\* s[i:j] of Python: positions i+1 .. j of the sequence
Slice(s, i, j) == SubSeq(s, i + 1, j)

\* s.startswith(p)
StartsWith(s, p) == Len(p) <= Len(s) /\ SubSeq(s, 1, Len(p)) = p

\* s.endswith(p)
EndsWith(s, p) == Len(p) <= Len(s) /\ SubSeq(s, Len(s) - Len(p) + 1, Len(s)) = p

\* p occurs in s at 0-based offset i
MatchAt(s, p, i) == i + Len(p) <= Len(s) /\ SubSeq(s, i + 1, i + Len(p)) = p

\* p in s (substring test of two strings)
IsSubstr(p, s) == \E i \in 0..Len(s) : MatchAt(s, p, i)

\* ''.join(parts)
RECURSIVE Concat(_)
Concat(parts) ==
    IF parts = <<>> THEN <<>> ELSE Head(parts) \o Concat(Tail(parts))

\* ' '.join(parts)
RECURSIVE JoinSp(_)
JoinSp(parts) ==
    IF parts = <<>> THEN <<>>
    ELSE IF Len(parts) = 1 THEN Head(parts)
    ELSE Head(parts) \o <<"sp">> \o JoinSp(Tail(parts))

\* s.replace(old, new): every non-overlapping occurrence, left to right
RECURSIVE Replace(_, _, _)
Replace(s, old, new) ==
    IF s = <<>> THEN <<>>
    ELSE IF MatchAt(s, old, 0)
         THEN new \o Replace(SubSeq(s, Len(old) + 1, Len(s)), old, new)
         ELSE <<Head(s)>> \o Replace(Tail(s), old, new)

RECURSIVE LStrip(_)
LStrip(s) == IF s # <<>> /\ Head(s) \in WS THEN LStrip(Tail(s)) ELSE s

RECURSIVE RStrip(_)
RStrip(s) ==
    IF s # <<>> /\ Last(s) \in WS THEN RStrip(SubSeq(s, 1, Len(s) - 1)) ELSE s

\* s.strip()
Strip(s) == RStrip(LStrip(s))

\* length of the longest prefix of s made of characters of set cs
RECURSIVE Run(_, _)
Run(s, cs) == IF s # <<>> /\ Head(s) \in cs THEN 1 + Run(Tail(s), cs) ELSE 0

\* re.sub('[cs]{min,}', rep, s): each maximal run of at least min characters
\* of cs is replaced by rep
RECURSIVE SubRuns(_, _, _, _)
SubRuns(s, cs, min, rep) ==
    IF s = <<>> THEN <<>>
    ELSE LET n == Run(s, cs)
         IN  IF n >= min /\ n > 0
             THEN rep \o SubRuns(SubSeq(s, n + 1, Len(s)), cs, min, rep)
             ELSE IF n > 0
                  THEN SubSeq(s, 1, n) \o SubRuns(SubSeq(s, n + 1, Len(s)), cs, min, rep)
                  ELSE <<Head(s)>> \o SubRuns(Tail(s), cs, min, rep)

\* s.split(): the maximal runs of non-whitespace characters
RECURSIVE Split(_)
Split(s) ==
    LET t == LStrip(s)
        n == Run(t, {c \in {t[k] : k \in 1..Len(t)} : c \notin WS})
    IN  IF t = <<>> THEN <<>>
        ELSE <<SubSeq(t, 1, n)>> \o Split(SubSeq(t, n + 1, Len(t)))

-----------------------------------------------------------------------------
(* unicodedata.normalize('NFKC', text), on the alphabet of the model *)

\* compatibility decomposition of one character
Decomp(c) ==
    CASE c = "nbsp" -> <<"sp">>
      [] c = "ell"  -> <<"dot", "dot", "dot">>
      [] c = "rra"  -> <<"ra", "nukta">>
      [] OTHER      -> <<c>>

\* canonical combining class (0: a starter)
Ccc(c) ==
    CASE c = "nukta" -> 7
      [] c = "H"     -> 9
      [] OTHER       -> 0

RECURSIVE DecomposeAll(_)
DecomposeAll(s) ==
    IF s = <<>> THEN <<>> ELSE Decomp(Head(s)) \o DecomposeAll(Tail(s))

\* one pass of the canonical ordering: insert c into the ordered sequence s
RECURSIVE InsertMark(_, _)
InsertMark(s, c) ==
    IF s # <<>> /\ Ccc(c) > 0 /\ Ccc(Last(s)) > Ccc(c)
    THEN InsertMark(SubSeq(s, 1, Len(s) - 1), c) \o <<Last(s)>>
    ELSE s \o <<c>>

RECURSIVE Reorder(_, _)
Reorder(done, rest) ==
    IF rest = <<>> THEN done
    ELSE Reorder(InsertMark(done, Head(rest)), Tail(rest))

\* canonical composition: ra followed by nukta is the only pair of the
\* alphabet that composes (ka with nukta is excluded from composition)
Compose(s) == Replace(s, <<"ra", "nukta">>, <<"rra">>)

\* decomposition, canonical ordering of the combining marks, composition
NFKC(s) == Compose(Reorder(<<>>, DecomposeAll(s)))

-----------------------------------------------------------------------------
(* HindiBPE._normalize_text *)

\* self.char_mappings, in the order of the dict, restricted to the alphabet
char_mappings ==
    << <<(<<"ka", "nukta">>), (<<"ka">>)>>,
       <<(<<"zwsp">>), (<<"sp">>)>>,
       <<(<<"zwj">>), (<<>>)>>,
       <<(<<"nbsp">>), (<<"sp">>)>> >>

RECURSIVE ApplyMappings(_, _)
ApplyMappings(text, maps) ==
    IF maps = <<>> THEN text
    ELSE ApplyMappings(Replace(text, Head(maps)[1], Head(maps)[2]), Tail(maps))

_normalize_text(text) ==
    LET t1 == Strip(text)
        t2 == NFKC(t1)
        t3 == ApplyMappings(t2, char_mappings)
        t4 == SubRuns(t3, WS, 1, <<"sp">>)
        t5 == Strip(t4)
        t6 == SubRuns(t5, {"hy", "us"}, 1, <<"hy">>)
        t7 == [k \in 1..Len(t6) |-> IF t6[k] \in {"dq"} THEN "dq" ELSE t6[k]]
        t8 == SubRuns(t7, {"dot"}, 2, <<"dot", "dot", "dot">>)
    IN  t8

-----------------------------------------------------------------------------
(* Python dict and set primitives *)

\* d[k] = v
SetItem(d, k, v) == (k :> v) @@ d

\* the empty dict
EmptyDict == << >>

RECURSIVE SeqOf(_)
SeqOf(S) ==
    IF S = {} THEN <<>>
    ELSE LET e == CHOOSE y \in S : TRUE IN <<e>> \o SeqOf(S \ {e})

Reverse(s) == [k \in 1..Len(s) |-> s[Len(s) + 1 - k]]

\* The iteration orders of a Python set that the model distinguishes: the
\* order depends on the hash seed of the process.
HashOrders == {"fwd", "rev"}

\* "for e in S" under hash order h
Iter(S, h) == IF h = "fwd" THEN SeqOf(S) ELSE Reverse(SeqOf(S))

Range(s) == {s[k] : k \in 1..Len(s)}

-----------------------------------------------------------------------------
(* HindiBPE.__init__: the tables *)

UNK == <<"[", "U", "N", "K", "]">>
PAD == <<"[", "P", "A", "D", "]">>
BOS == <<"[", "B", "O", "S", "]">>
EOS == <<"[", "E", "O", "S", "]">>

\* chr(i) for i in range(256), in the order of i, restricted to the alphabet
AsciiSeq ==
    <<"sp", "dq", "hy", "dot", "qm", "A", "B", "D", "E", "K", "N", "O", "P",
      "S", "U", "[", "]", "us", "a", "nbsp">>

\* ["[UNK]", "[PAD]", "[BOS]", "[EOS]"]
SpecialTokens == <<UNK, PAD, BOS, EOS>>

\* ["।", "?", "!", ","]
PunctList == << <<"danda">>, <<"qm">> >>

common_words == { <<"ka", "aa">>, <<"ka", "ra">> }

base_chars == {"ka", "ra", "nukta", "danda", "qm"}

matra_chars == {"aa", "u", "H"}

\* the punctuation "।?!," that the syllable loops skip
PunctChars == {"danda", "qm"}

\* the vowel signs "ािीुूृेैोौं" that form syllables
SyllableMatras == <<"aa", "u">>

common_suffixes == << <<"ka", "ra">>, <<"ka", "aa", "ra">> >>

common_prefixes == << <<"ka", "u">> >>

syllables ==
    LET chars == base_chars \ PunctChars
    IN  {<<c>> : c \in chars}
        \cup {<<c, m>> : c \in chars, m \in Range(SyllableMatras)}
        \cup {<<c, "H", d>> : c \in chars, d \in chars}

-----------------------------------------------------------------------------
(* HindiBPE.__init__: seeding the vocabulary *)

\* for i in range(256): self.vocab[chr(i)] = i; current_id = i + 1
RECURSIVE SeedAscii(_, _)
SeedAscii(st, cs) ==
    IF cs = <<>> THEN st
    ELSE SeedAscii([vocab |-> SetItem(st.vocab, <<Head(cs)>>, st.current_id),
                    current_id |-> st.current_id + 1], Tail(cs))

\* a variant of the loop over the special tokens that leaves [UNK] out
RECURSIVE SeedSpecialWithoutUnk(_, _)
SeedSpecialWithoutUnk(st, toks) ==
    IF toks = <<>> THEN st
    ELSE IF Head(toks) = UNK THEN SeedSpecialWithoutUnk(st, Tail(toks))
    ELSE SeedSpecialWithoutUnk(
             [vocab |-> SetItem(st.vocab, Head(toks), st.current_id),
              current_id |-> st.current_id + 1], Tail(toks))

\* for token in self.special_tokens: self.vocab[token] = current_id; current_id += 1
RECURSIVE SeedSpecial(_, _)
SeedSpecial(st, toks) ==
    IF toks = <<>> THEN st
    ELSE SeedSpecial([vocab |-> SetItem(st.vocab, Head(toks), st.current_id),
                      current_id |-> st.current_id + 1], Tail(toks))

\* if t not in self.vocab: self.vocab[t] = current_id; current_id += 1
SeedTokenMissing(st, t) ==
    [vocab |-> SetItem(st.vocab, t, st.current_id),
     current_id |-> st.current_id + 1]

SeedToken(st, t) ==
    IF t \in DOMAIN st.vocab THEN st ELSE SeedTokenMissing(st, t)

\* the loops over the punctuation, the common words and the base characters
RECURSIVE SeedIfAbsent(_, _)
SeedIfAbsent(st, toks) ==
    IF toks = <<>> THEN st
    ELSE SeedIfAbsent(SeedToken(st, Head(toks)), Tail(toks))

\* if syllable not in self.vocab: self.vocab[syllable] = len(self.vocab)
AddTokenMissing(vocab, t) == SetItem(vocab, t, Cardinality(DOMAIN vocab))

AddToken(vocab, t) ==
    IF t \in DOMAIN vocab THEN vocab ELSE AddTokenMissing(vocab, t)

RECURSIVE AddTokens(_, _)
AddTokens(vocab, toks) ==
    IF toks = <<>> THEN vocab
    ELSE AddTokens(AddToken(vocab, Head(toks)), Tail(toks))

\* the constructor up to and including the punctuation
SeedFixed ==
    SeedIfAbsent(SeedSpecial(SeedAscii([vocab |-> EmptyDict, current_id |-> 0],
                                       AsciiSeq),
                             SpecialTokens),
                 PunctList)

\* the vocabulary the constructor leaves, under hash order h
SeedVocab(h) ==
    LET s4 == SeedIfAbsent(SeedFixed, Iter(common_words, h))
        s5 == SeedIfAbsent(s4, [k \in 1..Cardinality(base_chars) |->
                                   <<Iter(base_chars, h)[k]>>])
    IN  AddTokens(s5.vocab, Iter(syllables, h))

SeedVocabFwd == SeedVocab("fwd")
SeedVocabRev == SeedVocab("rev")

SeedVocabOf(h) == IF h = "fwd" THEN SeedVocabFwd ELSE SeedVocabRev

-----------------------------------------------------------------------------
(* HindiBPE._tokenize_word *)

\* the longest window of the first loop ("Increased from 8 to 12")
MaxMatch == 12

Min(a, b) == IF a <= b THEN a ELSE b

\* s.split(c) for a one-character separator c
RECURSIVE SplitOn(_, _)
SplitOn(s, c) ==
    LET n == Run(s, {d \in Range(s) : d # c})
    IN  IF n = Len(s) THEN <<s>>
        ELSE <<SubSeq(s, 1, n)>> \o SplitOn(SubSeq(s, n + 2, Len(s)), c)

\* subword in self.vocab or in self.common_words or in self.syllables
Known(vocab, subword) ==
    \/ subword \in DOMAIN vocab
    \/ subword \in common_words
    \/ subword \in syllables

\* len(subword) >= 3 and halant in subword and every part between halants
\* is one base character or one matra
Conjunct(subword) ==
    /\ Len(subword) >= 3
    /\ "H" \in Range(subword)
    /\ \A p \in Range(SplitOn(subword, "H")) :
          Len(p) = 1 /\ (p[1] \in base_chars \/ p[1] \in matra_chars)

\* the first loop at position i: the first length, from max_length down to
\* 1, whose subword matches; 0 when none does
RECURSIVE MatchLength(_, _, _, _)
MatchLength(vocab, word, i, length) ==
    IF length = 0 THEN 0
    ELSE LET subword == Slice(word, i, i + length)
         IN  IF Known(vocab, subword) \/ Conjunct(subword) THEN length
             ELSE MatchLength(vocab, word, i, length - 1)

\* while next_pos < len(word) - 1 and word[next_pos] is the halant and
\* word[next_pos + 1] in self.base_chars: next_pos += 2
RECURSIVE ClusterEnd(_, _)
ClusterEnd(word, next_pos) ==
    IF /\ next_pos < Len(word) - 1
       /\ word[next_pos + 1] = "H"
       /\ word[next_pos + 2] \in base_chars
    THEN ClusterEnd(word, next_pos + 2)
    ELSE next_pos

\* while pos < len(word) and word[pos] in self.matra_chars: pos += 1
RECURSIVE MatraEnd(_, _)
MatraEnd(word, pos) ==
    IF pos < Len(word) /\ word[pos + 1] \in matra_chars
    THEN MatraEnd(word, pos + 1)
    ELSE pos

\* the position after the token that one pass of the while loop emits at i
NextPos(vocab, word, i) ==
    LET length == MatchLength(vocab, word, i, Min(Len(word) - i, MaxMatch))
        next_pos == MatraEnd(word, ClusterEnd(word, i + 1))
        cluster == Slice(word, i, next_pos)
    IN  IF length > 0 THEN i + length
        ELSE IF i < Len(word) - 1
             THEN IF cluster \in DOMAIN vocab \/ cluster \in syllables
                  THEN next_pos
                  ELSE MatraEnd(word, i + 1)
             ELSE i + 1

\* the while loop from position i on
RECURSIVE TokenizeFrom(_, _, _)
TokenizeFrom(vocab, word, i) ==
    IF i >= Len(word) THEN <<>>
    ELSE LET j == NextPos(vocab, word, i)
         IN  <<Slice(word, i, j)>> \o TokenizeFrom(vocab, word, j)

_tokenize_word(vocab, w) ==
    LET word == _normalize_text(w)
    IN  IF word \in DOMAIN vocab THEN <<word>>
        ELSE TokenizeFrom(vocab, word, 0)

-----------------------------------------------------------------------------
(* HindiBPE.encode, HindiBPE.decode *)

\* a variant of the loop body of encode that closes every word with [EOS]
EncodeWordWithEos(vocab, word) ==
    (IF word \in DOMAIN vocab THEN <<vocab[word]>>
     ELSE LET word_tokens == _tokenize_word(vocab, word)
          IN  [k \in 1..Len(word_tokens) |->
                 IF word_tokens[k] \in DOMAIN vocab
                 THEN vocab[word_tokens[k]] ELSE vocab[UNK]])
    \o <<vocab[EOS]>>

\* the IDs of one word
EncodeWord(vocab, word) ==
    IF word \in DOMAIN vocab THEN <<vocab[word]>>
    ELSE LET word_tokens == _tokenize_word(vocab, word)
         IN  [k \in 1..Len(word_tokens) |->
                IF word_tokens[k] \in DOMAIN vocab
                THEN vocab[word_tokens[k]] ELSE vocab[UNK]]

RECURSIVE EncodeWords(_, _)
EncodeWords(vocab, words) ==
    IF words = <<>> THEN <<>>
    ELSE EncodeWord(vocab, Head(words)) \o EncodeWords(vocab, Tail(words))

\* the list encode returns (self.vocab['[UNK]'] raises KeyError when the
\* token is missing and a subword needs it)
encode(vocab, text) == EncodeWords(vocab, Split(_normalize_text(text)))

\* the marks "ािीुूृेैोौंँःृ्" of decode, as one string
DecodeMarks ==
    <<"aa", "i", "ii", "u", "uu", "ri", "e", "ai", "o", "au", "anusvara",
      "candrabindu", "visarga", "ri", "H">>

\* a variant of the lookup whose default is [PAD]
IdToTokenPad(vocab, id) ==
    IF \E t \in DOMAIN vocab : vocab[t] = id
    THEN CHOOSE t \in DOMAIN vocab : vocab[t] = id
    ELSE PAD

\* id_to_token.get(id, '[UNK]')
IdToToken(vocab, id) ==
    IF \E t \in DOMAIN vocab : vocab[t] = id
    THEN CHOOSE t \in DOMAIN vocab : vocab[t] = id
    ELSE UNK

\* what the loop of decode appends for one token, given whether result is
\* still empty
DecodePiece(special_tokens, token, empty) ==
    IF token \in Range(PunctList) \/ IsSubstr(token, DecodeMarks) THEN token
    ELSE IF token \in Range(special_tokens) THEN token
    ELSE IF ~empty /\ ~StartsWith(token, <<"H">>) /\ ~IsSubstr(token, DecodeMarks)
         THEN <<"sp">> \o token
         ELSE token

RECURSIVE DecodeLoop(_, _, _, _)
DecodeLoop(vocab, special_tokens, ids, empty) ==
    IF ids = <<>> THEN <<>>
    ELSE DecodePiece(special_tokens, IdToToken(vocab, Head(ids)), empty)
         \o DecodeLoop(vocab, special_tokens, Tail(ids), FALSE)

\* a variant of decode without its last substitution
KeepSpaceBeforePunct(s) == s

\* re.sub(r'\s+([।?!,])', r'\1', s)
RECURSIVE DropSpaceBeforePunct(_)
DropSpaceBeforePunct(s) ==
    IF s = <<>> THEN <<>>
    ELSE LET n == Run(s, WS)
         IN  IF n > 0 /\ n < Len(s) /\ <<s[n + 1]>> \in Range(PunctList)
             THEN DropSpaceBeforePunct(SubSeq(s, n + 1, Len(s)))
             ELSE IF n > 0
                  THEN SubSeq(s, 1, n) \o DropSpaceBeforePunct(SubSeq(s, n + 1, Len(s)))
                  ELSE <<Head(s)>> \o DropSpaceBeforePunct(Tail(s))

decode(vocab, special_tokens, ids) ==
    LET joined == Strip(DecodeLoop(vocab, special_tokens, ids, TRUE))
    IN  DropSpaceBeforePunct(SubRuns(joined, WS, 1, <<"sp">>))

-----------------------------------------------------------------------------
(* Ordered dicts (a dict iterates in insertion order): a sequence of        *)
(* <<key, value>> entries with distinct keys                                *)

Keys(d) == {d[k][1] : k \in 1..Len(d)}

\* d.get(key, default)
Get(d, key, default) ==
    IF key \in Keys(d)
    THEN (CHOOSE e \in Range(d) : e[1] = key)[2]
    ELSE default

\* d[key] = value: a new key goes last, an old key keeps its place
Put(d, key, value) ==
    IF key \in Keys(d)
    THEN [k \in 1..Len(d) |-> IF d[k][1] = key THEN <<key, value>> ELSE d[k]]
    ELSE Append(d, <<key, value>>)

\* insert e into s, sorted by descending e[2], after the entries that are
\* not smaller (a stable sort)
RECURSIVE InsertDesc(_, _)
InsertDesc(s, e) ==
    IF s = <<>> THEN <<e>>
    ELSE IF Head(s)[2] >= e[2] THEN <<Head(s)>> \o InsertDesc(Tail(s), e)
    ELSE <<e>> \o s

\* sorted(d.items(), key=lambda x: x[1], reverse=True)
RECURSIVE SortDesc(_)
SortDesc(d) ==
    IF d = <<>> THEN <<>>
    ELSE InsertDesc(SortDesc(SubSeq(d, 1, Len(d) - 1)), Last(d))

-----------------------------------------------------------------------------
(* HindiBPE._get_stats *)

\* ["ना", "ता", "ते", "ती", "गा", "गी", "या", "ये", "कर"]
VerbSuffixes == << <<"ka", "ra">> >>

Boost(combined) ==
    IF combined \in common_words THEN 20
    ELSE IF \E c \in Range(combined) : c \in matra_chars THEN 15
    ELSE IF \E k \in 1..Len(VerbSuffixes) : EndsWith(combined, VerbSuffixes[k]) THEN 12
    ELSE IF \E k \in 1..Len(common_suffixes) : EndsWith(combined, common_suffixes[k]) THEN 10
    ELSE IF \E k \in 1..Len(common_prefixes) : StartsWith(combined, common_prefixes[k]) THEN 8
    ELSE IF "H" \in Range(combined) THEN 6
    ELSE 1

\* the inner loop over j for one word of the table
RECURSIVE StatsOfWord(_, _, _, _)
StatsOfWord(pairs_dict, symbols, freq, j) ==
    IF j >= Len(symbols) THEN pairs_dict
    ELSE LET pair == <<symbols[j], symbols[j + 1]>>
             combined == pair[1] \o pair[2]
         IN  StatsOfWord(Put(pairs_dict, pair,
                             Get(pairs_dict, pair, 0) + freq * Boost(combined)),
                         symbols, freq, j + 1)

RECURSIVE StatsLoop(_, _)
StatsLoop(pairs_dict, words) ==
    IF words = <<>> THEN pairs_dict
    ELSE StatsLoop(StatsOfWord(pairs_dict, Split(Head(words)[1]), Head(words)[2], 1),
                   Tail(words))

_get_stats(words) == StatsLoop(<<>>, words)

-----------------------------------------------------------------------------
(* HindiBPE._merge_pair *)

\* ' '.join(parts).replace(f"{pair[0]} {pair[1]}", replacement)
MergeInWord(pair, parts) ==
    Replace(JoinSp(parts), pair[1] \o <<"sp">> \o pair[2], pair[1] \o pair[2])

RECURSIVE MergeLoop(_, _, _, _)
MergeLoop(new_words, pair, words, min_freq) ==
    IF words = <<>> THEN new_words
    ELSE LET word == Head(words)[1]
             freq == Head(words)[2]
             parts == Split(word)
             next == IF freq < min_freq THEN new_words
                     ELSE IF Len(parts) < 2 THEN Put(new_words, word, freq)
                     ELSE Put(new_words, MergeInWord(pair, parts), freq)
         IN  MergeLoop(next, pair, Tail(words), min_freq)

_merge_pair(pair, words, min_freq) == MergeLoop(<<>>, pair, words, min_freq)

-----------------------------------------------------------------------------
(* HindiBPE._merge_pair of the baseline tokenizer (src/src)                 *)

\* the while loop over parts: a[i] and a[i + 1] are replaced by the merged
\* token where they are the pair, token by token
RECURSIVE ScanParts(_, _)
ScanParts(pair, parts) ==
    IF parts = <<>> THEN <<>>
    ELSE IF Len(parts) >= 2 /\ parts[1] = pair[1] /\ parts[2] = pair[2]
         THEN <<pair[1] \o pair[2]>> \o ScanParts(pair, SubSeq(parts, 3, Len(parts)))
         ELSE <<Head(parts)>> \o ScanParts(pair, Tail(parts))

RECURSIVE MergeLoopBaseline(_, _, _, _)
MergeLoopBaseline(new_words, pair, words, min_freq) ==
    IF words = <<>> THEN new_words
    ELSE LET word == Head(words)[1]
             freq == Head(words)[2]
             parts == Split(word)
             next == IF freq < min_freq THEN new_words
                     ELSE IF Len(parts) < 2 THEN Put(new_words, word, freq)
                     ELSE Put(new_words, JoinSp(ScanParts(pair, parts)), freq)
         IN  MergeLoopBaseline(next, pair, Tail(words), min_freq)

_merge_pair_baseline(pair, words, min_freq) ==
    MergeLoopBaseline(<<>>, pair, words, min_freq)

-----------------------------------------------------------------------------
(* HindiBPE.train: the selection of the pairs to merge *)

\* sorted(...)[:50]
TopPairs == 50

\* if len(best_pairs) >= 10: break
MaxBestPairs == 10

\* len(merged) > 3 and (ends with a suffix) or (starts with a prefix) or
\* (contains the halant): "and" binds tighter than "or"
Plausible(merged) ==
    \/ /\ Len(merged) > 3
       /\ \E k \in 1..Len(common_suffixes) : EndsWith(merged, common_suffixes[k])
    \/ \E k \in 1..Len(common_prefixes) : StartsWith(merged, common_prefixes[k])
    \/ "H" \in Range(merged)

\* the loop over the sorted pairs: append the plausible ones, break at 10
RECURSIVE SelectPairs(_, _)
SelectPairs(best_pairs, sorted) ==
    IF sorted = <<>> THEN best_pairs
    ELSE LET e == Head(sorted)
             bp == IF Plausible(e[1][1] \o e[1][2]) THEN Append(best_pairs, e)
                   ELSE best_pairs
         IN  IF Len(bp) >= MaxBestPairs THEN bp
             ELSE SelectPairs(bp, Tail(sorted))

BestPairs(pairs) ==
    SelectPairs(<<>>, SubSeq(SortDesc(pairs), 1, Min(TopPairs, Len(pairs))))

\* Counter.most_common(): by descending count, ties in insertion order
most_common(word_freqs) == SortDesc(word_freqs)

-----------------------------------------------------------------------------
(* The inputs of the model *)

\* the longest corpus (distinct words), the number of calls of train, the
\* longest text and the longest ID list that the model passes to train,
\* encode and decode
MaxCorpusWords == 2
MaxTrains == 1
MaxTextLen == 3
MaxIds == 3

\* HindiBPE(vocab_size, min_freq): below, near and above the seeded size
VocabSizes == {40, 45, 60}
MinFreqs == {2, 3}

\* a word of 13 characters, one more than the window of the segmenter, and
\* the same word with one more consonant
LongWord == <<"ka", "H", "ka">> \o [k \in 1..10 |-> "ka"]
LongerWord == LongWord \o <<"ka">>

\* the words of the training files: "कर्", "काकर", and the two long words
CorpusWords == { <<"ka", "ra", "H">>, <<"ka", "aa", "ka", "ra">>,
                 LongWord, LongerWord }

\* how often a word occurs in the file: with the values of min_freq, a word
\* is dropped (2 < 3), segmented (2 >= 2, 11 <= 15) or kept whole (11 > 10)
Freqs == {2, 11}

\* Counter(words): the distinct words in the order of their first
\* occurrence, each with its count
RECURSIVE CorporaOfLen(_)
CorporaOfLen(n) ==
    IF n = 0 THEN {<<>>}
    ELSE {Append(c, <<w, f>>) : c \in CorporaOfLen(n - 1),
                                w \in CorpusWords, f \in Freqs}

Corpora ==
    {c \in UNION {CorporaOfLen(n) : n \in 1..MaxCorpusWords} :
        \A i, j \in 1..Len(c) : i # j => c[i][1] # c[j][1]}

\* the characters of the texts given to the codec
InputChars == {"ka", "ra", "nukta", "aa", "H", "danda", "ell", "sp"}

RECURSIVE TextsOfLen(_)
TextsOfLen(n) ==
    IF n = 0 THEN {<<>>}
    ELSE {Append(t, c) : t \in TextsOfLen(n - 1), c \in InputChars}

Texts == UNION {TextsOfLen(n) : n \in 0..MaxTextLen}

\* the texts without whitespace
Words == {t \in Texts : \A k \in 1..Len(t) : t[k] \notin WS}

\* the IDs given to decode: of some tokens of every kind, the last one
\* assigned, the first one not assigned, and a negative one
SampleIds(v) ==
    {v[t] : t \in {UNK, PAD, <<"sp">>, <<"a">>, <<"ka">>, <<"ka", "aa">>,
                   <<"danda">>}}
    \cup {Cardinality(DOMAIN v) - 1, Cardinality(DOMAIN v), -1}

RECURSIVE IdSeqsOfLen(_, _)
IdSeqsOfLen(v, n) ==
    IF n = 0 THEN {<<>>}
    ELSE {Append(s, i) : s \in IdSeqsOfLen(v, n - 1), i \in SampleIds(v)}

IdSeqs(v) == UNION {IdSeqsOfLen(v, n) : n \in 0..MaxIds}

\* the training files of the runs that exercise the codec: one word that a
\* text can spell, as often as the merge loop needs it
CodecCorpora ==
    {c \in Corpora : /\ Len(c) = 1
                     /\ c[1][1] \in Texts
                     /\ \A f \in Freqs : c[1][2] <= f}

\* the most tokens of a segmented word given to _merge_pair
MaxParts == 3

\* the tokens of the word tables given to _merge_pair, and the counts
MergeTokens == { <<"ka">>, <<"ra">>, <<"ka", "ra">>, <<"H">> }

TableFreqs == {1, 2}

RECURSIVE PartsOfLen(_)
PartsOfLen(n) ==
    IF n = 0 THEN {<<>>}
    ELSE {Append(ps, t) : ps \in PartsOfLen(n - 1), t \in MergeTokens}

\* the tables of one segmented word, and those of two short ones
WordTables ==
    LET long == UNION {PartsOfLen(n) : n \in 1..MaxParts}
        short == PartsOfLen(1) \cup PartsOfLen(2)
    IN  {<< <<JoinSp(ps), f>> >> : ps \in long, f \in TableFreqs}
        \cup {t \in {<< <<JoinSp(ps), 2>>, <<JoinSp(qs), 2>> >> :
                          ps \in short, qs \in short} : t[1] # t[2]}

-----------------------------------------------------------------------------
(* HindiBPE.save, HindiBPE.load *)

\* the keys of the dict that save pickles
Fields == {"vocab", "merges", "special_tokens", "vocab_size", "min_freq"}

\* data = {'vocab': self.vocab, ...}; pickle.dump(data, f)
save(tok) == [f \in Fields |-> tok[f]]

\* the keys that load reads with data[key], in the order of its assignments
LoadOrder == <<"vocab", "merges", "special_tokens">>

\* data.get('vocab_size', 5000), data.get('min_freq', 2)
DefaultVocabSize == 5000
DefaultMinFreq == 2

\* data[key] raises KeyError for one of the keys
Raises(data) == \E k \in Range(LoadOrder) : k \notin DOMAIN data

\* self.vocab = data['vocab']; self.merges = data['merges'];
\* self.special_tokens = data['special_tokens'], up to the first missing key
RECURSIVE LoadRequired(_, _, _)
LoadRequired(tok, data, keys) ==
    IF keys = <<>> \/ Head(keys) \notin DOMAIN data THEN tok
    ELSE LoadRequired([tok EXCEPT ![Head(keys)] = data[Head(keys)]], data,
                      Tail(keys))

\* a variant of load that keeps the vocab_size and min_freq of the constructor
loadKeepingConfig(tok, data) == LoadRequired(tok, data, LoadOrder)

\* the fields of the tokenizer when load returns or raises
load(tok, data) ==
    LET t == LoadRequired(tok, data, LoadOrder)
    IN  IF Raises(data) THEN t
        ELSE [t EXCEPT !.vocab_size = IF "vocab_size" \in DOMAIN data
                                      THEN data.vocab_size ELSE DefaultVocabSize,
                       !.min_freq = IF "min_freq" \in DOMAIN data
                                    THEN data.min_freq ELSE DefaultMinFreq]

-----------------------------------------------------------------------------
(* The state *)

VARIABLES
    vocab_size,      \* self.vocab_size
    min_freq,        \* self.min_freq
    vocab,           \* self.vocab: token -> ID
    merges,          \* self.merges: <<left, right>> -> ID
    special_tokens,  \* self.special_tokens
    hash_order,      \* the iteration order of the sets of this process
    pc,              \* where train stands: "idle", "words", "loop", "apply",
                     \* "done" (about to return)
    trains,          \* how many times train was called
    below,           \* train: whether every word of the file of this call
                     \* occurs fewer than min_freq times
    queue,           \* train: what is left of word_freqs.most_common()
    words,           \* train: the local table of segmented words -> count
    best_pairs,      \* train: what is left of best_pairs in the apply loop
    progress,        \* train: what the current pass of the while loop did
    artifact,        \* the pickled dict in the file; no key: no file yet
    other,           \* the fields of a second tokenizer, the target of load
    load_status,     \* of the second tokenizer: "absent", "fresh", "loaded",
                     \* "raised"
    call,            \* the last call of the codec: its name, input and result
    threads          \* the calls of encode and decode that the threads of
                     \* the caller are in, each with its local variables

vars == <<vocab_size, min_freq, vocab, merges, special_tokens, hash_order,
          pc, trains, below, queue, words, best_pairs, progress,
          artifact, other, load_status, call,
          threads>>

tokenizer == <<vocab_size, min_freq, vocab, merges, special_tokens, hash_order>>

train_locals ==
    <<pc, trains, below, queue, words, best_pairs, progress>>

persistence == <<artifact, other, load_status>>

\* the five fields of the first tokenizer that save reads
Self ==
    [vocab |-> vocab, merges |-> merges, special_tokens |-> special_tokens,
     vocab_size |-> vocab_size, min_freq |-> min_freq]

\* the fields HindiBPE(vs, mf) leaves under hash order h
Constructed(vs, mf, h) ==
    [vocab |-> SeedVocabOf(h), merges |-> EmptyDict,
     special_tokens |-> SpecialTokens, vocab_size |-> vs, min_freq |-> mf]

NoCall == [op |-> "none", arg |-> <<>>, ret |-> <<>>]

\* the threads of a caller that shares one tokenizer
Threads == {1, 2}

\* a thread that is in no call
NoThread ==
    [op |-> "none", arg |-> <<>>, todo |-> <<>>, out |-> <<>>, snap |-> <<>>,
     done |-> FALSE]

\* HindiBPE(vocab_size, min_freq)
Init ==
    /\ vocab_size \in VocabSizes
    /\ min_freq \in MinFreqs
    /\ hash_order \in HashOrders
    /\ vocab = Constructed(vocab_size, min_freq, hash_order).vocab
    /\ merges = Constructed(vocab_size, min_freq, hash_order).merges
    /\ special_tokens = Constructed(vocab_size, min_freq, hash_order).special_tokens
    /\ pc = "idle"
    /\ trains = 0
    /\ below = FALSE
    /\ queue = <<>>
    /\ words = <<>>
    /\ best_pairs = <<>>
    /\ progress = "none"
    /\ artifact = <<>>
    /\ other = <<>>
    /\ load_status = "absent"
    /\ call = NoCall
    /\ threads = [t \in Threads |-> NoThread]

-----------------------------------------------------------------------------
(* HindiBPE.train *)

\* for token in self.special_tokens: self.vocab[token] = len(self.vocab)
RECURSIVE ReAdd(_, _)
ReAdd(v, toks) ==
    IF toks = <<>> THEN v
    ELSE ReAdd(SetItem(v, Head(toks), Cardinality(DOMAIN v)), Tail(toks))

\* a variant of train that adds the special tokens again before it counts
\* the words
TrainBeginReAdding(files) ==
    /\ pc = "idle"
    /\ trains < MaxTrains
    /\ DOMAIN artifact = {}
    /\ call = NoCall
    /\ trains' = trains + 1
    /\ pc' = "words"
    /\ \E word_freqs \in files :
          /\ queue' = most_common(word_freqs)
          /\ below' = \A k \in 1..Len(word_freqs) : word_freqs[k][2] < min_freq
    /\ vocab' = ReAdd(vocab, special_tokens)
    /\ words' = <<>>
    /\ best_pairs' = <<>>
    /\ progress' = "none"
    /\ UNCHANGED <<vocab_size, min_freq, merges, special_tokens, hash_order,
                   persistence, call, threads>>

\* train(input_file): read the file, count the words. A run trains before
\* it saves and before it calls the codec.
TrainBegin(files) ==
    /\ pc = "idle"
    /\ trains < MaxTrains
    /\ DOMAIN artifact = {}
    /\ call = NoCall
    /\ trains' = trains + 1
    /\ pc' = "words"
    /\ \E word_freqs \in files :
          /\ queue' = most_common(word_freqs)
          /\ below' = \A k \in 1..Len(word_freqs) : word_freqs[k][2] < min_freq
    /\ words' = <<>>
    /\ best_pairs' = <<>>
    /\ progress' = "none"
    /\ UNCHANGED <<tokenizer, persistence, call, threads>>

\* whether the loop over most_common() keeps the word whole
KeepWhole(word, freq, mf) == word \in common_words \/ freq > mf * 5

\* a variant of the pass that does not compare freq with min_freq
ProcessWordAnyFreq ==
    /\ pc = "words"
    /\ queue # <<>>
    /\ LET word == Head(queue)[1]
           freq == Head(queue)[2]
       IN  /\ vocab' = IF KeepWhole(word, freq, min_freq)
                       THEN AddToken(vocab, word) ELSE vocab
           /\ words' = IF ~KeepWhole(word, freq, min_freq)
                       THEN Put(words, JoinSp(_tokenize_word(vocab, word)), freq)
                       ELSE words
    /\ queue' = Tail(queue)
    /\ UNCHANGED <<vocab_size, min_freq, merges, special_tokens, hash_order,
                   pc, trains, below, best_pairs, progress, persistence,
                   call, threads>>

\* one pass of "for word, freq in word_freqs.most_common()"
ProcessWord ==
    /\ pc = "words"
    /\ queue # <<>>
    /\ LET word == Head(queue)[1]
           freq == Head(queue)[2]
       IN  /\ vocab' = IF freq >= min_freq /\ KeepWhole(word, freq, min_freq)
                       THEN AddToken(vocab, word) ELSE vocab
           /\ words' = IF freq >= min_freq /\ ~KeepWhole(word, freq, min_freq)
                       THEN Put(words, JoinSp(_tokenize_word(vocab, word)), freq)
                       ELSE words
    /\ queue' = Tail(queue)
    /\ UNCHANGED <<vocab_size, min_freq, merges, special_tokens, hash_order,
                   pc, trains, below, best_pairs, progress, persistence,
                   call, threads>>

\* the head of "while len(self.vocab) < self.vocab_size": the statistics and
\* the selection of best_pairs, or the end of train
LoopHead ==
    /\ \/ pc = "words" /\ queue = <<>>
       \/ pc = "loop"
    /\ LET bp == BestPairs(_get_stats(words))
       IN  IF Cardinality(DOMAIN vocab) < vocab_size /\ bp # <<>>
           THEN /\ pc' = "apply"
                /\ best_pairs' = bp
                /\ progress' = "none"
           ELSE /\ pc' = "done"
                /\ best_pairs' = <<>>
                /\ progress' = "none"
    /\ UNCHANGED <<tokenizer, trains, below, queue, words, persistence,
                   call, threads>>

\* a variant of train that registers a merged token it already has
NeedsMergeAlways(v, merged_token) == TRUE

\* if merged_token not in self.vocab
NeedsMerge(v, merged_token) == merged_token \notin DOMAIN v

\* self.vocab[merged_token] = len(self.vocab)
\* self.merges[best_pair] = len(self.vocab) - 1
Register(pair) ==
    /\ vocab' = SetItem(vocab, pair[1] \o pair[2], Cardinality(DOMAIN vocab))
    /\ merges' = SetItem(merges, pair, Cardinality(DOMAIN vocab') - 1)

\* one pass of "for best_pair, _ in best_pairs", or its end
ApplyMerge ==
    /\ pc = "apply"
    /\ IF best_pairs = <<>> \/ Cardinality(DOMAIN vocab) >= vocab_size
       THEN /\ pc' = "loop"
            /\ best_pairs' = <<>>
            /\ UNCHANGED <<vocab, merges, words, progress>>
       ELSE LET best_pair == Head(best_pairs)[1]
            IN  /\ best_pairs' = Tail(best_pairs)
                /\ pc' = "apply"
                /\ IF NeedsMerge(vocab, best_pair[1] \o best_pair[2])
                   THEN /\ words' = _merge_pair(best_pair, words, min_freq)
                        /\ Register(best_pair)
                        /\ progress' = "merged"
                   ELSE UNCHANGED <<vocab, merges, words, progress>>
    /\ UNCHANGED <<vocab_size, min_freq, special_tokens, hash_order, trains,
                   below, queue, persistence, call, threads>>

\* train returns: its local variables are gone
TrainReturn ==
    /\ pc = "done"
    /\ pc' = "idle"
    /\ below' = FALSE
    /\ words' = <<>>
    /\ UNCHANGED <<tokenizer, trains, queue, best_pairs, progress, persistence,
                   call, threads>>

-----------------------------------------------------------------------------
(* save, and load into a second tokenizer *)

\* tokenizer.save(path)
Save ==
    /\ pc = "idle"
    /\ DOMAIN artifact = {}
    /\ artifact' = save(Self)
    /\ UNCHANGED <<tokenizer, train_locals, other, load_status, call, threads>>

\* other = HindiBPE(vs, mf), in the process of the first tokenizer
Construct ==
    /\ DOMAIN artifact # {}
    /\ load_status = "absent"
    /\ \E vs \in VocabSizes, mf \in MinFreqs :
          other' = Constructed(vs, mf, hash_order)
    /\ load_status' = "fresh"
    /\ UNCHANGED <<tokenizer, train_locals, artifact, call, threads>>

\* the file at path is replaced by a pickle that lacks the key f
Truncate ==
    /\ load_status = "fresh"
    /\ DOMAIN artifact = Fields
    /\ \E f \in Fields : artifact' = [g \in Fields \ {f} |-> artifact[g]]
    /\ UNCHANGED <<tokenizer, train_locals, other, load_status, call, threads>>

\* other.load(path)
Load ==
    /\ load_status = "fresh"
    /\ other' = load(other, artifact)
    /\ load_status' = IF Raises(artifact) THEN "raised" ELSE "loaded"
    /\ UNCHANGED <<tokenizer, train_locals, artifact, call, threads>>

Next ==
    \/ TrainBegin(Corpora)
    \/ ProcessWord
    \/ LoopHead
    \/ ApplyMerge
    \/ TrainReturn
    \/ Save
    \/ Construct
    \/ Truncate
    \/ Load

Spec == Init /\ [][Next]_vars

-----------------------------------------------------------------------------
(* Calls of the codec on the first tokenizer: a run makes one call, after  *)
(* construction or after train                                             *)

\* tokenizer._normalize_text(text)
NormalizeCall ==
    /\ pc = "idle"
    /\ call = NoCall
    /\ \E text \in Texts :
          call' = [op |-> "_normalize_text", arg |-> text,
                   ret |-> _normalize_text(text)]
    /\ UNCHANGED <<tokenizer, train_locals, persistence, threads>>

\* tokenizer._tokenize_word(tokenizer._normalize_text(w))
TokenizeCall ==
    /\ pc = "idle"
    /\ call = NoCall
    /\ \E w \in Words :
          call' = [op |-> "_tokenize_word", arg |-> w,
                   ret |-> _tokenize_word(vocab, _normalize_text(w))]
    /\ UNCHANGED <<tokenizer, train_locals, persistence, threads>>

\* tokenizer.encode(text)
EncodeCall ==
    /\ pc = "idle"
    /\ call = NoCall
    /\ \E text \in Texts :
          call' = [op |-> "encode", arg |-> text, ret |-> encode(vocab, text)]
    /\ UNCHANGED <<tokenizer, train_locals, persistence, threads>>

\* tokenizer.decode(ids)
DecodeCall ==
    /\ pc = "idle"
    /\ call = NoCall
    /\ \E ids \in IdSeqs(vocab) :
          call' = [op |-> "decode", arg |-> ids,
                   ret |-> decode(vocab, special_tokens, ids)]
    /\ UNCHANGED <<tokenizer, train_locals, persistence, threads>>

\* HindiBPE(vocab_size, min_freq) with the largest vocab_size and the
\* smallest min_freq of the model
InitCodec ==
    /\ Init
    /\ \A vs \in VocabSizes : vs <= vocab_size
    /\ \A mf \in MinFreqs : min_freq <= mf

NextCodec ==
    \/ TrainBegin(CodecCorpora)
    \/ ProcessWord
    \/ LoopHead
    \/ ApplyMerge
    \/ TrainReturn
    \/ NormalizeCall
    \/ TokenizeCall
    \/ EncodeCall
    \/ DecodeCall

SpecCodec == InitCodec /\ [][NextCodec]_vars

-----------------------------------------------------------------------------
(* Calls of encode on the first tokenizer and, after save and load, on the *)
(* second one                                                              *)

\* whether encode(text) raises KeyError at self.vocab['[UNK]']: a subword of
\* a word is not in the vocabulary and neither is [UNK]
EncodeRaises(v, text) ==
    /\ UNK \notin DOMAIN v
    /\ \E word \in Range(Split(_normalize_text(text))) :
          /\ word \notin DOMAIN v
          /\ \E token \in Range(_tokenize_word(v, word)) : token \notin DOMAIN v

\* what a call of encode leaves: the list it returns, or the KeyError
EncodeOutcome(op, v, text) ==
    IF EncodeRaises(v, text)
    THEN [op |-> "KeyError", arg |-> text, ret |-> <<>>]
    ELSE [op |-> op, arg |-> text, ret |-> encode(v, text)]

\* tokenizer.encode(text), before the run saves
EncodeBeforeSave ==
    /\ pc = "idle"
    /\ call = NoCall
    /\ DOMAIN artifact = {}
    /\ \E text \in Texts : call' = EncodeOutcome("encode", vocab, text)
    /\ UNCHANGED <<tokenizer, train_locals, persistence, threads>>

\* other.encode(text), after other.load(path)
EncodeLoaded ==
    /\ call = NoCall
    /\ load_status = "loaded"
    /\ \E text \in Texts : call' = EncodeOutcome("other.encode", other.vocab, text)
    /\ UNCHANGED <<tokenizer, train_locals, persistence, threads>>

NextServe ==
    \/ TrainBegin(CodecCorpora)
    \/ ProcessWord
    \/ LoopHead
    \/ ApplyMerge
    \/ TrainReturn
    \/ Save
    \/ Construct
    \/ Load
    \/ EncodeBeforeSave
    \/ EncodeLoaded

SpecServe == InitCodec /\ [][NextServe]_vars

-----------------------------------------------------------------------------
(* Calls of _merge_pair on a constructed tokenizer *)

\* tokenizer._merge_pair(pair, words)
MergePairCall ==
    /\ pc = "idle"
    /\ call = NoCall
    /\ \E a \in MergeTokens, b \in MergeTokens, table \in WordTables :
          call' = [op |-> "_merge_pair", arg |-> <<<<a, b>>, table>>,
                   ret |-> _merge_pair(<<a, b>>, table, min_freq)]
    /\ UNCHANGED <<tokenizer, train_locals, persistence, threads>>

SpecMerge == InitCodec /\ [][MergePairCall]_vars

-----------------------------------------------------------------------------
(* train on the files that exercise the word table: a word with a           *)
(* zero-width space, which _normalize_text replaces by a space, and a word  *)
(* of three tokens                                                          *)

\* the words of these files: "क्", "क\u200b्" and "कर्क"
TableWords ==
    { <<"ka", "H">>, <<"ka", "zwsp", "H">>, <<"ka", "ra", "H", "ka">> }

\* Counter(words) of the files of one word and of two
TableCorpora ==
    {<< <<w, f>> >> : w \in TableWords, f \in Freqs}
    \cup {c \in {<< <<w, f>>, <<x, g>> >> : w \in TableWords, x \in TableWords,
                                            f \in Freqs, g \in Freqs} :
              c[1][1] # c[2][1]}

NextTable ==
    \/ TrainBegin(TableCorpora)
    \/ ProcessWord
    \/ LoopHead
    \/ ApplyMerge
    \/ TrainReturn

SpecTable == Init /\ [][NextTable]_vars

-----------------------------------------------------------------------------
(* A second tokenizer with the configuration of the first, constructed in   *)
(* another process: its sets iterate in an order of their own               *)

\* HindiBPE(vocab_size, min_freq) in another process
ConstructElsewhere ==
    /\ load_status = "absent"
    /\ \E h \in HashOrders : other' = Constructed(vocab_size, min_freq, h)
    /\ load_status' = "fresh"
    /\ UNCHANGED <<tokenizer, train_locals, artifact, call, threads>>

NextTwin ==
    \/ TrainBegin(CodecCorpora)
    \/ ProcessWord
    \/ LoopHead
    \/ ApplyMerge
    \/ TrainReturn
    \/ ConstructElsewhere

SpecTwin == Init /\ [][NextTwin]_vars

-----------------------------------------------------------------------------
(* Concurrent calls of encode and decode on one trained tokenizer: every   *)
(* thread runs its call one pass of the loop at a time, and each pass      *)
(* reads the fields of the tokenizer as they are at that moment            *)

\* the texts and the ID lists the threads pass
SharedTexts ==
    { <<"ka", "ra", "H">> \o <<"sp">> \o <<"ell">>,
      <<"ra", "aa", "aa">> \o <<"sp">> \o <<"ka", "danda">>,
      <<"H">> }

SharedIds(v) ==
    { <<v[<<"ka">>], -1>>, <<v[<<"ka", "aa">>], v[<<"sp">>], v[<<"danda">>]>>,
      <<Cardinality(DOMAIN v) - 1, v[UNK]>> }

\* the tokenizer is trained and train does not run
Trained == pc = "idle" /\ trains = MaxTrains

\* encode(text) up to the loop: text = self._normalize_text(text);
\* words = text.split()
EncodeStart(t) ==
    /\ Trained
    /\ threads[t].op = "none"
    /\ \E text \in SharedTexts :
          threads' = [threads EXCEPT ![t] =
                         [op |-> "encode", arg |-> text,
                          todo |-> Split(_normalize_text(text)),
                          out |-> <<>>, snap |-> <<>>, done |-> FALSE]]
    /\ UNCHANGED <<tokenizer, train_locals, persistence, call>>

\* a variant of the pass of encode that adds the subwords it does not know
\* to the vocabulary
EncodeStepLearning(t) ==
    /\ threads[t].op = "encode"
    /\ ~threads[t].done
    /\ IF threads[t].todo = <<>>
       THEN /\ threads' = [threads EXCEPT ![t].done = TRUE]
            /\ vocab' = vocab
       ELSE LET word == Head(threads[t].todo)
            IN  /\ vocab' = AddTokens(vocab, _tokenize_word(vocab, word))
                /\ threads' = [threads EXCEPT
                                  ![t].todo = Tail(@),
                                  ![t].out = @ \o EncodeWord(vocab', word)]
    /\ UNCHANGED <<vocab_size, min_freq, merges, special_tokens, hash_order,
                   train_locals, persistence, call>>

\* one pass of "for word in words" of encode, or "return tokens"
EncodeStep(t) ==
    /\ threads[t].op = "encode"
    /\ ~threads[t].done
    /\ IF threads[t].todo = <<>>
       THEN threads' = [threads EXCEPT ![t].done = TRUE]
       ELSE threads' = [threads EXCEPT
                           ![t].todo = Tail(@),
                           ![t].out = @ \o EncodeWord(vocab, Head(threads[t].todo))]
    /\ UNCHANGED <<tokenizer, train_locals, persistence, call>>

\* decode(ids) up to the loop: id_to_token = {v: k for k, v in
\* self.vocab.items()}
DecodeStart(t) ==
    /\ Trained
    /\ threads[t].op = "none"
    /\ \E ids \in SharedIds(vocab) :
          threads' = [threads EXCEPT ![t] =
                         [op |-> "decode", arg |-> ids, todo |-> ids,
                          out |-> <<>>, snap |-> vocab, done |-> FALSE]]
    /\ UNCHANGED <<tokenizer, train_locals, persistence, call>>

\* the end of decode: strip and the two substitutions
DecodeFinish(joined) ==
    DropSpaceBeforePunct(SubRuns(Strip(joined), WS, 1, <<"sp">>))

\* one pass of "for id in ids" of decode, or its end
DecodeStep(t) ==
    /\ threads[t].op = "decode"
    /\ ~threads[t].done
    /\ IF threads[t].todo = <<>>
       THEN threads' = [threads EXCEPT ![t].out = DecodeFinish(@),
                                       ![t].done = TRUE]
       ELSE threads' = [threads EXCEPT
                           ![t].todo = Tail(@),
                           ![t].out = @ \o DecodePiece(
                               special_tokens,
                               IdToToken(threads[t].snap, Head(threads[t].todo)),
                               Len(threads[t].todo) = Len(threads[t].arg))]
    /\ UNCHANGED <<tokenizer, train_locals, persistence, call>>

NextShared ==
    \/ TrainBegin(CodecCorpora)
    \/ ProcessWord
    \/ LoopHead
    \/ ApplyMerge
    \/ TrainReturn
    \/ \E t \in Threads : EncodeStart(t)
    \/ \E t \in Threads : EncodeStep(t)
    \/ \E t \in Threads : DecodeStart(t)
    \/ \E t \in Threads : DecodeStep(t)

SpecShared == InitCodec /\ [][NextShared]_vars

-----------------------------------------------------------------------------
(* The baseline tokenizer (src/src/hindi_bpe_scratch.py): its vocabulary is *)
(* a dict in insertion order, a sequence of <<token, ID>> entries           *)

\* self.base_chars of the baseline: the consonants, the vowel signs and the
\* space that separates them in the literal, restricted to the alphabet
base_chars_baseline == {"ka", "ra", "aa", "u", "sp"}

\* for token in toks: self.vocab[token] = len(self.vocab)
RECURSIVE AssignLen(_, _)
AssignLen(d, toks) ==
    IF toks = <<>> THEN d
    ELSE AssignLen(Put(d, Head(toks), Len(d)), Tail(toks))

\* the vocabulary the baseline constructor leaves under hash order h: the
\* common words, the special tokens, then the base characters that are not
\* whitespace and not yet in the vocabulary
SeedBaseline(h) ==
    LET first == AssignLen(AssignLen(<<>>, Iter(common_words, h)), SpecialTokens)
        chars == [k \in 1..Cardinality(base_chars_baseline) |->
                     <<Iter(base_chars_baseline, h)[k]>>]
    IN  AssignLen(first,
                  SelectSeq(chars, LAMBDA c : Strip(c) # <<>> /\ c \notin Keys(first)))

\* _normalize_text of the baseline: that of the other file, with
\* re.sub(r'[?!।॥]+', '।', text) after the second strip
_normalize_text_baseline(text) ==
    LET t5 == Strip(SubRuns(ApplyMappings(NFKC(Strip(text)), char_mappings),
                            WS, 1, <<"sp">>))
        t5b == SubRuns(t5, {"qm", "danda"}, 1, <<"danda">>)
        t6 == SubRuns(t5b, {"hy", "us"}, 1, <<"hy">>)
        t7 == [k \in 1..Len(t6) |-> IF t6[k] \in {"dq"} THEN "dq" ELSE t6[k]]
    IN  SubRuns(t7, {"dot"}, 2, <<"dot", "dot", "dot">>)

\* the while loop of _tokenize_word from position i on: the longest common
\* word of at most 6 characters; else a consonant, the halant and what
\* follows up to the next vowel sign of "ािीुूृेैोौं"; else one character
\* with the marks of "ािीुूृेैोौंँःृ्" that follow it
RECURSIVE TokenizeFromBaseline(_, _)
TokenizeFromBaseline(word, i) ==
    IF i >= Len(word) THEN <<>>
    ELSE LET lengths == {n \in 1..Min(6, Len(word) - i) :
                             Slice(word, i, i + n) \in common_words}
             length == IF lengths = {} THEN 0
                       ELSE CHOOSE n \in lengths : \A m \in lengths : m <= n
             rest == Slice(word, i + 2, Len(word))
             cluster == i + 2 + Run(rest, Range(rest) \ {"aa", "u"})
             marked == i + 1 + Run(Slice(word, i + 1, Len(word)),
                                   Range(DecodeMarks))
             j == IF length > 0 THEN i + length
                  ELSE IF i < Len(word) - 1 /\ word[i + 2] = "H" /\ cluster > i + 2
                       THEN cluster
                       ELSE marked
         IN  <<Slice(word, i, j)>> \o TokenizeFromBaseline(word, j)

_tokenize_word_baseline(w) ==
    LET word == _normalize_text_baseline(w)
    IN  IF word \in common_words THEN <<word>>
        ELSE TokenizeFromBaseline(word, 0)

\* the boost of _get_stats: 5 for the words of its list ("का"), 3 for a
\* common suffix ("कर"), 2 for a common prefix
BoostBaseline(combined) ==
    IF combined = <<"ka", "aa">> THEN 5
    ELSE IF EndsWith(combined, <<"ka", "ra">>) THEN 3
    ELSE IF \E k \in 1..Len(common_prefixes) : StartsWith(combined, common_prefixes[k])
         THEN 2
    ELSE 1

RECURSIVE StatsOfWordBaseline(_, _, _, _)
StatsOfWordBaseline(pairs_dict, symbols, freq, j) ==
    IF j >= Len(symbols) THEN pairs_dict
    ELSE LET pair == <<symbols[j], symbols[j + 1]>>
         IN  StatsOfWordBaseline(
                 Put(pairs_dict, pair,
                     Get(pairs_dict, pair, 0)
                     + freq * BoostBaseline(pair[1] \o pair[2])),
                 symbols, freq, j + 1)

\* _get_stats(table), with the pairs counted so far
RECURSIVE _get_stats_baseline(_, _)
_get_stats_baseline(pairs_dict, table) ==
    IF table = <<>> THEN pairs_dict
    ELSE _get_stats_baseline(
             StatsOfWordBaseline(pairs_dict, Split(Head(table)[1]),
                                 Head(table)[2], 1),
             Tail(table))

\* the table of train: for word, freq in word_freqs.items():
\* if freq >= self.min_freq: vocab[' '.join(_tokenize_word(word))] = freq
RECURSIVE TableBaseline(_, _, _)
TableBaseline(table, word_freqs, mf) ==
    IF word_freqs = <<>> THEN table
    ELSE LET word == Head(word_freqs)[1]
             freq == Head(word_freqs)[2]
         IN  TableBaseline(IF freq >= mf
                           THEN Put(table, JoinSp(_tokenize_word_baseline(word)), freq)
                           ELSE table,
                           Tail(word_freqs), mf)

\* the while loop of encode over chars, the tokens of one word joined by
\* spaces: the longest prefix that is a token once its spaces are removed,
\* or [UNK] for one character
RECURSIVE EncodeCharsBaseline(_, _)
EncodeCharsBaseline(d, chars) ==
    IF chars = <<>> THEN <<>>
    ELSE LET found == {i \in 1..Len(chars) :
                           SelectSeq(SubSeq(chars, 1, i), LAMBDA c : c # "sp")
                               \in Keys(d)}
             i == IF found = {} THEN 0
                  ELSE CHOOSE n \in found : \A m \in found : m <= n
         IN  IF i > 0
             THEN <<Get(d, SelectSeq(SubSeq(chars, 1, i), LAMBDA c : c # "sp"), -1)>>
                  \o EncodeCharsBaseline(d, Strip(SubSeq(chars, i + 1, Len(chars))))
             ELSE <<Get(d, UNK, -1)>>
                  \o EncodeCharsBaseline(d, Strip(Tail(chars)))

\* encode(text) of the baseline: for word in text.split()
encode_baseline(d, text) ==
    Concat([k \in 1..Len(Split(text)) |->
               EncodeCharsBaseline(d, JoinSp(_tokenize_word_baseline(Split(text)[k])))])

\* id_to_token = {v: k for k, v in self.vocab.items()}; id_to_token.get(id,
\* '[UNK]'): of the tokens that have the ID, the last one of the dict
IdToTokenBaseline(d, id) ==
    IF \E k \in 1..Len(d) : d[k][2] = id
    THEN d[CHOOSE k \in 1..Len(d) :
               d[k][2] = id /\ \A m \in (k + 1)..Len(d) : d[m][2] # id][1]
    ELSE UNK

\* ''.join(id_to_token.get(id, '[UNK]') for id in ids)
decode_baseline(d, ids) ==
    Concat([k \in 1..Len(ids) |-> IdToTokenBaseline(d, ids[k])])

\* HindiBPE(vocab_size, min_freq) of the baseline: the seeded size, two more,
\* and more than train can reach
BaselineVocabSizes == {10, 12, 40}

\* the state after the baseline constructor; progress counts the passes
\* that "for i in range(num_merges)" has left
InitBaseline ==
    /\ vocab_size \in BaselineVocabSizes
    /\ min_freq \in MinFreqs
    /\ hash_order \in HashOrders
    /\ vocab = SeedBaseline(hash_order)
    /\ merges = EmptyDict
    /\ special_tokens = SpecialTokens
    /\ pc = "idle"
    /\ trains = 0
    /\ below = FALSE
    /\ queue = <<>>
    /\ words = <<>>
    /\ best_pairs = <<>>
    /\ progress = 0
    /\ artifact = <<>>
    /\ other = <<>>
    /\ load_status = "absent"
    /\ call = NoCall
    /\ threads = [t \in Threads |-> NoThread]

\* train(input_file) up to the merge loop: the table of the words, then the
\* base characters and the special tokens are assigned len(self.vocab)
\* again, and num_merges = self.vocab_size - len(self.vocab)
BaselineTrainBegin(files) ==
    /\ pc = "idle"
    /\ trains < MaxTrains
    /\ call = NoCall
    /\ trains' = trains + 1
    /\ pc' = "loop"
    /\ \E word_freqs \in files :
          words' = TableBaseline(<<>>, word_freqs, min_freq)
    /\ vocab' = AssignLen(AssignLen(vocab,
                                    [k \in 1..Cardinality(base_chars_baseline) |->
                                        <<Iter(base_chars_baseline, hash_order)[k]>>]),
                          special_tokens)
    /\ progress' = vocab_size - Len(vocab')
    /\ UNCHANGED <<vocab_size, min_freq, merges, special_tokens, hash_order,
                   below, queue, best_pairs, persistence, call, threads>>

\* one pass of "for i in range(num_merges)", or its end
BaselineMerge ==
    /\ pc = "loop"
    /\ LET pairs == _get_stats_baseline(<<>>, words)
           \* max(pairs.items(), key=lambda x: x[1])[0]: the first maximum
           best_pair == SortDesc(pairs)[1][1]
       IN  IF progress > 0 /\ pairs # <<>>
           THEN /\ words' = _merge_pair_baseline(best_pair, words, min_freq)
                /\ merges' = SetItem(merges, best_pair, Len(vocab))
                /\ vocab' = Put(vocab, best_pair[1] \o best_pair[2], Len(vocab))
                /\ progress' = progress - 1
                /\ pc' = "loop"
           ELSE /\ pc' = "done"
                /\ UNCHANGED <<vocab, merges, words, progress>>
    /\ UNCHANGED <<vocab_size, min_freq, special_tokens, hash_order, trains,
                   below, queue, best_pairs, persistence, call, threads>>

\* train returns
BaselineTrainReturn ==
    /\ pc = "done"
    /\ pc' = "idle"
    /\ words' = <<>>
    /\ progress' = 0
    /\ UNCHANGED <<tokenizer, trains, below, queue, best_pairs, persistence,
                   call, threads>>

\* ids = tokenizer.encode(text)
BaselineEncodeCall ==
    /\ pc = "idle"
    /\ call = NoCall
    /\ \E text \in CorpusWords \cup SharedTexts \cup {<<"ka">>, UNK} :
          call' = [op |-> "encode", arg |-> text,
                   ret |-> encode_baseline(vocab, text)]
    /\ UNCHANGED <<tokenizer, train_locals, persistence, threads>>

\* tokenizer.decode(ids), ids being what encode returned
BaselineDecodeCall ==
    /\ pc = "idle"
    /\ call.op = "encode"
    /\ call' = [op |-> "decode", arg |-> call.ret,
                ret |-> decode_baseline(vocab, call.ret)]
    /\ UNCHANGED <<tokenizer, train_locals, persistence, threads>>

NextBaseline ==
    \/ BaselineTrainBegin(Corpora)
    \/ BaselineMerge
    \/ BaselineTrainReturn
    \/ BaselineEncodeCall
    \/ BaselineDecodeCall

SpecBaseline == InitBaseline /\ [][NextBaseline]_vars

-----------------------------------------------------------------------------
(* Properties of the vocabulary and of train *)

Size(v) == Cardinality(DOMAIN v)

\* no two tokens share an ID: there are as many IDs as tokens
Injective(v) == Cardinality({v[t] : t \in DOMAIN v}) = Size(v)

Dense(v) == {v[t] : t \in DOMAIN v} = 0..(Size(v) - 1)

\* C1: in every state reached by construction and train the vocabulary is a
\* bijection onto 0..|vocab|-1: no two tokens share an ID, the IDs are
\* exactly 0..|vocab|-1, and the reverse map of decode returns t for the ID
\* of every token t.
C1_VocabBijection ==
    /\ Injective(vocab)
    /\ Dense(vocab)
    /\ \A t \in DOMAIN vocab : IdToToken(vocab, vocab[t]) = t

\* train has returned below vocab_size after applying merges, with a word
\* of the corpus added to the vocabulary
C1_Witness ==
    /\ pc = "done"
    /\ DOMAIN merges # {}
    /\ \E w \in CorpusWords : w \in DOMAIN vocab /\ w \notin DOMAIN SeedVocabFwd
    /\ Size(vocab) < vocab_size

\* C2: at every point of train the vocabulary holds at most vocab_size
\* tokens.
C2_SizeWithinTarget == pc # "idle" => Size(vocab) <= vocab_size

\* the other half of C2: no step of train removes a token
C2_SizeNeverDecreases == [][Size(vocab') >= Size(vocab)]_vars

\* C3: every pass through the merge loop that returns to the head of the
\* loop has added a token to the vocabulary.
C3_EveryPassAddsToken ==
    [][(pc = "apply" /\ pc' = "loop") => progress = "merged"]_vars

\* C13: when every word of the file occurs fewer than min_freq times, the
\* first train of a constructed tokenizer performs no merge: at every point
\* of the call and when it ends, merges is empty, the word table is empty
\* and the vocabulary is the one the constructor seeded.
C13_BelowMinFreqNoMerge ==
    (pc # "idle" /\ trains = 1 /\ below) =>
        /\ merges = EmptyDict
        /\ words = <<>>
        /\ vocab = SeedVocabOf(hash_order)

\* the first train ends on a file whose words all occur fewer than min_freq
\* times, with room left in the vocabulary
C13_Witness ==
    /\ pc = "done"
    /\ below
    /\ trains = 1
    /\ Size(vocab) < vocab_size

\* the ID the constructor gives the k-th special token: current_id counts
\* on from the byte characters
SpecialId(k) == Len(AsciiSeq) + k - 1

\* C14: after construction and at every point of and after every call of
\* train, [UNK], [PAD], [BOS] and [EOS] are in the vocabulary, each with the
\* ID the constructor gave it.
C14_SpecialTokensStable ==
    /\ Range(SpecialTokens) \subseteq DOMAIN vocab
    /\ \A k \in 1..Len(SpecialTokens) :
          vocab[SpecialTokens[k]] = SpecialId(k)

\* train has returned after registering a word of the file and a merge
C14_Witness ==
    /\ pc = "idle"
    /\ trains = 1
    /\ DOMAIN merges # {}
    /\ \E w \in CorpusWords : w \in DOMAIN vocab

\* C17: _merge_pair rewrites every word of the table token by token: it
\* returns the table that the token-by-token scan of the baseline
\* _merge_pair returns, so a token that only ends with the left part or
\* begins with the right part of the pair is left as it is.
C17_MergeIsTokenScan ==
    call.op = "_merge_pair" =>
        call.ret = _merge_pair_baseline(call.arg[1], call.arg[2], min_freq)

\* the rule of selection as the claim C18 states it
LongAndPlausible(merged) ==
    /\ Len(merged) > 3
    /\ \/ \E k \in 1..Len(common_suffixes) : EndsWith(merged, common_suffixes[k])
       \/ \E k \in 1..Len(common_prefixes) : StartsWith(merged, common_prefixes[k])
       \/ "H" \in Range(merged)

\* C18: every pair retained for merging has a merged string of more than 3
\* characters that ends with a known suffix, starts with a known prefix or
\* contains the joiner; at most 10 pairs are retained per iteration; and no
\* merged pair has a merged string of 3 or fewer characters.
C18_OnlyLongPlausiblePairs ==
    /\ \A k \in 1..Len(best_pairs) :
          LongAndPlausible(best_pairs[k][1][1] \o best_pairs[k][1][2])
    /\ Len(best_pairs) <= MaxBestPairs
    /\ \A pair \in DOMAIN merges : Len(pair[1] \o pair[2]) > 3

\* the vowel signs and nasalization marks among matra_chars
VowelSigns == matra_chars \ {"H"}

\* the boost as the claim C19 states it
ClaimedBoost(combined) ==
    IF combined \in common_words THEN 20
    ELSE IF \E c \in Range(combined) : c \in VowelSigns THEN 15
    ELSE IF \E k \in 1..Len(VerbSuffixes) : EndsWith(combined, VerbSuffixes[k]) THEN 12
    ELSE IF \E k \in 1..Len(common_suffixes) : EndsWith(combined, common_suffixes[k]) THEN 10
    ELSE IF \E k \in 1..Len(common_prefixes) : StartsWith(combined, common_prefixes[k]) THEN 8
    ELSE IF "H" \in Range(combined) THEN 6
    ELSE 1

\* the positions of symbols at which the pair stands
PairPositions(symbols, pair) ==
    {j \in 1..(Len(symbols) - 1) : <<symbols[j], symbols[j + 1]>> = pair}

\* the statistic of the pair over the table with the boost of the claim
RECURSIVE ClaimedStat(_, _)
ClaimedStat(table, pair) ==
    IF table = <<>> THEN 0
    ELSE Head(table)[2] * ClaimedBoost(pair[1] \o pair[2])
             * Cardinality(PairPositions(Split(Head(table)[1]), pair))
         + ClaimedStat(Tail(table), pair)

\* C19: the statistic _get_stats gives a pair of the word table is the sum
\* of word frequency times boost over its positions, the boost being that
\* of the first matching rule: common word 20, vowel sign 15, verbal suffix
\* 12, nominal suffix 10, prefix 8, joiner 6, otherwise 1; a pair with the
\* joiner, without a vowel sign and outside the earlier rules counts 6
\* times the word frequency.
C19_BoostByFirstRule ==
    LET stats == _get_stats(words)
    IN  \A k \in 1..Len(stats) : stats[k][2] = ClaimedStat(words, stats[k][1])

-----------------------------------------------------------------------------
(* Properties of the codec *)

\* s without its whitespace
NoWS(s) == SelectSeq(s, LAMBDA c : c \notin WS)

\* C4: _normalize_text(_normalize_text(x)) = _normalize_text(x).
C4_NormalizeIdempotent ==
    call.op = "_normalize_text" => _normalize_text(call.ret) = call.ret

\* C5: the tokens of _tokenize_word(normalize(w)) concatenate to normalize(w).
C5_SegmentsConcatToWord ==
    call.op = "_tokenize_word" => Concat(call.ret) = _normalize_text(call.arg)

\* the most IDs encode returns for one word of the normalized text: one for
\* a vocabulary word, else one per character of the word normalized again
WordBound(v, w) == IF w \in DOMAIN v THEN 1 ELSE Len(_normalize_text(w))

RECURSIVE TextBound(_, _)
TextBound(v, ws) ==
    IF ws = <<>> THEN 0 ELSE WordBound(v, Head(ws)) + TextBound(v, Tail(ws))

\* C6 (amended): encode returns at most one ID for each word of the
\* normalized text that is in the vocabulary and at most one ID per
\* character, after normalizing the word again, for each other word.
C6_EncodeLengthBound ==
    call.op = "encode" =>
        Len(call.ret) <= TextBound(vocab, Split(_normalize_text(call.arg)))

\* encode returned more IDs than the text has characters
C6_Witness == call.op = "encode" /\ Len(call.ret) > Len(call.arg)

\* C6 (as stated): encode returns at most as many IDs as the text has
\* characters.
C6_EncodeAtMostInputLength ==
    call.op = "encode" => Len(call.ret) <= Len(call.arg)

\* a word of base consonants and vowel signs that begins with a consonant
BaseWord(w) ==
    /\ w # <<>>
    /\ w[1] \in {"ka", "ra"}
    /\ \A k \in 1..Len(w) : w[k] \in {"ka", "ra", "aa"}

\* C7: on a freshly constructed tokenizer, encode of a word of base
\* characters that is not in the vocabulary returns no [UNK] ID.
C7_NoUnkForBaseWords ==
    (/\ call.op = "encode"
     /\ trains = 0
     /\ BaseWord(call.arg)
     /\ call.arg \notin DOMAIN vocab)
    => vocab[UNK] \notin Range(call.ret)

\* C8: when encode(text) holds no [UNK] ID, decode(encode(text)) and
\* normalize(text) are equal once the whitespace is removed from both.
C8_RoundTripUpToSpacing ==
    (call.op = "encode" /\ vocab[UNK] \notin Range(call.ret))
    => NoWS(decode(vocab, special_tokens, call.ret))
         = NoWS(_normalize_text(call.arg))

-----------------------------------------------------------------------------
(* Properties of save and load *)

\* C9: when load raises, vocab, merges and special_tokens of the tokenizer
\* are what they were before the call.
C9_LoadRaisesUnchanged ==
    [][(load_status = "fresh" /\ load_status' = "raised")
       => /\ other'.vocab = other.vocab
          /\ other'.merges = other.merges
          /\ other'.special_tokens = other.special_tokens]_vars

\* the texts and the ID lists on which the loaded tokenizer is compared with
\* the saved one: the corpus words, some texts of the codec, every ID
ProbeTexts ==
    CorpusWords
    \cup { <<"ka", "nukta", "nukta">>, <<"ka", "aa", "aa">>, <<"ell">>,
            <<"ka", "ra", "H">> \o <<"sp">> \o <<"ka", "danda">> }

ProbeIds(v) == {<<i>> : i \in 0..Size(v)} \cup {<<0, Size(v) - 1>>}

\* C10: after save and load of the saved file into a tokenizer constructed
\* with any configuration, the five fields of the loaded tokenizer equal
\* those of the saved one, and both return the same encode and decode
\* results.
C10_PersistenceRoundTrip ==
    (load_status = "loaded" /\ DOMAIN artifact = Fields) =>
        /\ other = save(Self)
        /\ \A text \in ProbeTexts :
              encode(other.vocab, text) = encode(vocab, text)
        /\ \A ids \in ProbeIds(vocab) :
              decode(other.vocab, other.special_tokens, ids)
                = decode(vocab, special_tokens, ids)

\* a trained tokenizer with merges was saved and loaded into a tokenizer
\* constructed with another configuration
C10_Witness ==
    /\ load_status = "loaded"
    /\ DOMAIN artifact = Fields
    /\ DOMAIN merges # {}
    /\ Size(vocab) > Size(SeedVocabFwd)

-----------------------------------------------------------------------------
(* Properties of the error handling of the codec *)

\* the vocabulary of the tokenizer that the last call of encode was made on
Served == IF call.op = "other.encode" THEN other.vocab ELSE vocab

\* ids holds, word by word, one ID for a word of the vocabulary and one ID
\* per subword of the segmenter for any other word, and the ID of a subword
\* that is not in the vocabulary is the ID of [UNK]
RECURSIVE UnkWhereAbsent(_, _, _)
UnkWhereAbsent(v, ws, ids) ==
    IF ws = <<>> THEN ids = <<>>
    ELSE IF Head(ws) \in DOMAIN v
         THEN ids # <<>> /\ UnkWhereAbsent(v, Tail(ws), Tail(ids))
         ELSE LET toks == _tokenize_word(v, Head(ws))
              IN  /\ Len(ids) >= Len(toks)
                  /\ \A k \in 1..Len(toks) :
                        toks[k] \notin DOMAIN v => ids[k] = v[UNK]
                  /\ UnkWhereAbsent(v, Tail(ws),
                                    SubSeq(ids, Len(toks) + 1, Len(ids)))

\* C11: in every state reached by construction, train, save and load of
\* the saved file, [UNK] has an ID in the vocabulary of the tokenizer and of
\* the loaded one, no call of encode raises, and every subword of the
\* segmenter that is not in the vocabulary is emitted as the ID of [UNK].
C11_UnkFallback ==
    /\ UNK \in DOMAIN vocab
    /\ load_status \in {"fresh", "loaded"} => UNK \in DOMAIN other.vocab
    /\ call.op # "KeyError"
    /\ call.op \in {"encode", "other.encode"} =>
          UnkWhereAbsent(Served, Split(_normalize_text(call.arg)), call.ret)

\* the loaded copy of a trained tokenizer encoded a text with a subword
\* that its vocabulary does not hold
C11_Witness ==
    /\ call.op = "other.encode"
    /\ DOMAIN other.merges # {}
    /\ Len(call.ret) > 1
    /\ other.vocab[UNK] \in Range(call.ret)

\* how often p occurs in s
Occurrences(s, p) == Cardinality({i \in 0..Len(s) : MatchAt(s, p, i)})

\* the positions of ids whose ID no token has, or only [UNK]
UnkPositions(v, ids) ==
    {k \in 1..Len(ids) : (~\E t \in DOMAIN v : v[t] = ids[k]) \/ ids[k] = v[UNK]}

\* C12: decode returns a text for every list of integers: the text holds
\* the string [UNK] once for every ID that is negative, beyond the assigned
\* range or otherwise the ID of no token (and for the ID of [UNK]), and
\* decode of the empty list is the empty string.
C12_DecodeTotal ==
    call.op = "decode" =>
        /\ Occurrences(call.ret, UNK) = Cardinality(UnkPositions(vocab, call.arg))
        /\ call.arg = <<>> => call.ret = <<>>

\* a trained tokenizer decoded a negative ID and an ID beyond the range
C12_Witness ==
    /\ call.op = "decode"
    /\ DOMAIN merges # {}
    /\ \E j, k \in 1..Len(call.arg) :
          call.arg[j] < 0 /\ call.arg[k] >= Size(vocab)
    /\ Occurrences(call.ret, UNK) = 2

-----------------------------------------------------------------------------
(* Properties of the spacing of decode *)

\* C16: the text decode returns has no whitespace immediately before a
\* punctuation mark, and for a word w of the vocabulary (a token without
\* whitespace) decode([ID of w, ID of the danda]) is w followed directly by
\* the danda.
C16_NoSpaceBeforePunct ==
    call.op = "decode" =>
        /\ \A k \in 2..Len(call.ret) :
              <<call.ret[k]>> \in Range(PunctList) => call.ret[k - 1] \notin WS
        /\ \A w \in DOMAIN vocab :
              (NoWS(w) = w /\ call.arg = <<vocab[w], vocab[<<"danda">>]>>)
              => call.ret = w \o <<"danda">>

\* decode joined a word, a space and a danda, and returned the word
\* followed by the danda
C16_Witness ==
    /\ call.op = "decode"
    /\ call.arg = <<vocab[<<"ka", "aa">>], vocab[<<"sp">>], vocab[<<"danda">>]>>
    /\ call.ret = <<"ka", "aa", "danda">>

\* a token that the claim C20 joins without a space: a vowel sign or
\* nasalization mark, the joiner, or a punctuation mark
Attached(token) ==
    \/ token \in Range(PunctList)
    \/ Len(token) = 1 /\ token[1] \in Range(DecodeMarks)

\* the tokens joined as the claim C20 states: one space before every token
\* that is not attached and not the first
RECURSIVE ClaimedJoin(_, _)
ClaimedJoin(tokens, first) ==
    IF tokens = <<>> THEN <<>>
    ELSE (IF first \/ Attached(Head(tokens)) THEN Head(tokens)
          ELSE <<"sp">> \o Head(tokens))
         \o ClaimedJoin(Tail(tokens), FALSE)

\* C20: in the text decode returns, every token that is not a vowel sign or
\* nasalization mark, the joiner or a punctuation mark, and not the first,
\* is preceded by exactly one space, the special tokens and the [UNK] of
\* an unmapped ID included (for lists without a whitespace token).
C20_OneSpaceBeforeOtherTokens ==
    LET tokens == [k \in 1..Len(call.arg) |-> IdToToken(vocab, call.arg[k])]
    IN  (/\ call.op = "decode"
         /\ \A k \in 1..Len(tokens) : NoWS(tokens[k]) = tokens[k])
        => call.ret = ClaimedJoin(tokens, TRUE)

-----------------------------------------------------------------------------
(* Properties of concurrent calls *)

\* what the call that thread t has finished returns when it runs alone on
\* the tokenizer as it is now
Sequential(t) ==
    IF threads[t].op = "encode" THEN encode(vocab, threads[t].arg)
    ELSE decode(vocab, special_tokens, threads[t].arg)

\* C15: no pass of encode or decode changes vocab, merges or
\* special_tokens, and every call that threads interleave on one trained
\* tokenizer returns what the same call returns when it runs alone.
C15_ReadOnlyCalls ==
    /\ [](\A t \in Threads : threads[t].done => threads[t].out = Sequential(t))
    /\ [][threads' # threads =>
             /\ vocab' = vocab
             /\ merges' = merges
             /\ special_tokens' = special_tokens]_vars

\* a call of encode and a call of decode are both between two passes of
\* their loops, on a tokenizer with merges
C15_Witness ==
    /\ DOMAIN merges # {}
    /\ \E t, u \in Threads :
          /\ threads[t].op = "encode"
          /\ threads[u].op = "decode"
          /\ \A x \in {t, u} : threads[x].out # <<>> /\ threads[x].todo # <<>>


-----------------------------------------------------------------------------
(* Properties of the baseline tokenizer *)

\* C21: in the baseline tokenizer the vocabulary is still a bijection after
\* train: no two distinct tokens have the same ID, and for every token
\* without whitespace decode gives back the token from the IDs that encode
\* emits for it.
C21_BaselineBijectionAfterTrain ==
    (pc = "idle" /\ trains > 0) =>
        /\ \A i, j \in 1..Len(vocab) : vocab[i][2] = vocab[j][2] => i = j
        /\ \A k \in 1..Len(vocab) :
              (\A c \in Range(vocab[k][1]) : c \notin WS) =>
                  decode_baseline(vocab, encode_baseline(vocab, vocab[k][1]))
                      = vocab[k][1]


-----------------------------------------------------------------------------
(* Properties of the word table of train *)

\* the tokens of an entry of the table, concatenated
Spelled(entry) == Concat(Split(entry[1]))

\* C22: throughout train every entry of the word table keeps its identity.
\* The entry that the loop over the words adds spells the normalized word
\* of the file and carries its count; every application of _merge_pair
\* leaves as many entries as there were, each spelling the same word with
\* the same count.
C22_TableEntriesKept ==
    [][/\ (pc = "words" /\ words' # words) =>
              \E k \in 1..Len(words') :
                  /\ Spelled(words'[k]) = _normalize_text(Head(queue)[1])
                  /\ words'[k][2] = Head(queue)[2]
       /\ (pc = "apply" /\ words' # words) =>
              /\ Len(words') = Len(words)
              /\ \A k \in 1..Len(words) :
                    /\ Spelled(words'[k]) = Spelled(words[k])
                    /\ words'[k][2] = words[k][2]]_vars


\* whether the tokens of pair follow each other in the list of tokens
Adjacent(pair, symbols) ==
    \E j \in 1..(Len(symbols) - 1) :
        symbols[j] = pair[1] /\ symbols[j + 1] = pair[2]

\* C23: whenever train registers a merged token and its merge rule, the
\* two tokens of the pair are adjacent in at least one word of the table
\* just before the merge is applied, and the merged token is a token of at
\* least one word of the table just after.
C23_RegisteredPairIsAdjacent ==
    [][(pc = "apply" /\ vocab' # vocab) =>
          LET best_pair == Head(best_pairs)[1]
          IN  /\ \E k \in 1..Len(words) :
                    Adjacent(best_pair, Split(words[k][1]))
              /\ \E k \in 1..Len(words') :
                    best_pair[1] \o best_pair[2] \in Range(Split(words'[k][1]))]_vars


\* C24: training and encoding agree. When train ends, every token of every
\* word of the table is in the vocabulary, and encode of the word that the
\* entry spells returns the IDs of exactly these tokens, in their order.
C24_EncodeAgreesWithTable ==
    pc = "done" =>
        \A k \in 1..Len(words) :
            LET tokens == Split(words[k][1])
            IN  /\ \A j \in 1..Len(tokens) : tokens[j] \in DOMAIN vocab
                /\ encode(vocab, Spelled(words[k]))
                       = [j \in 1..Len(tokens) |-> vocab[tokens[j]]]


-----------------------------------------------------------------------------
(* Determinism of the IDs *)

\* C25: ID assignment is deterministic. A second tokenizer constructed with
\* the configuration of the first gives every token of its vocabulary the
\* ID that the token has in the first, whatever the order in which its
\* sets are iterated, and whether or not the first has been trained since.
C25_SameIdsInBothTokenizers ==
    load_status = "fresh" =>
        \A t \in DOMAIN other.vocab :
            t \in DOMAIN vocab /\ vocab[t] = other.vocab[t]

=============================================================================
